---------------------------- MODULE Spec2Model ----------------------------
(***************************************************************************)
(* Model of app.py: the Square POS CSV -> per-artist commission report     *)
(* pipeline (parse_category, parse_dollar, process_csv, the ArtistReport   *)
(* totals, _sanitise_filename, generate_all_pdfs_zip and the Streamlit     *)
(* upload flow).                                                           *)
(*                                                                         *)
(* Representation.                                                         *)
(*  - A Python str is a sequence of one-character strings; Python None is  *)
(*    the distinguished value None below (never a str).                    *)
(*  - A Python int is a record [neg, mag] of its sign and its magnitude,    *)
(*    a natural number of any size held as a sequence of base-2^14 limbs.  *)
(*  - A Python float is an IEEE 754 binary64 value, a record               *)
(*    [kind, neg, m, e]: kind "fin" stands for (-1)^neg * m * 2^e with m   *)
(*    odd (or zero, for the two zeros), kind "inf" for the infinity of     *)
(*    sign neg, kind "nan" for a NaN.  Arithmetic rounds to nearest, ties  *)
(*    to even, as the hardware does.                                       *)
(*  - A row (dict) is a function from column names to str-or-None.         *)
(*  - The artists dict is the sequence of its ArtistReports in insertion   *)
(*    order (Python dicts keep insertion order).                           *)
(***************************************************************************)
EXTENDS Integers, Sequences, FiniteSets, TLC

(***************************************************************************)
(* Characters and strings                                                  *)
(***************************************************************************)

\* The characters of the model, in ascending code-point order.
Alphabet ==
  << "\t", "\n", " ", "!", "#", "$", "(", ")", "+", ",", "-", ".", "/",
     "0", "1", "2", "3", "4", "5", "6", "7", "8", "9", "?",
     "A", "B", "E", "F", "I", "N", "O", "_", "a", "b", "c", "d", "e", "f", "i",
     "k", "m", "n", "o", "p", "r", "s", "t", "u", "w", "x", "y" >>

\* Position of character c in code-point order (all that < on str needs).
Ord(c) == CHOOSE p \in 1..Len(Alphabet) : Alphabet[p] = c

Whitespace == {" ", "\t", "\n"}
Digits == {"0", "1", "2", "3", "4", "5", "6", "7", "8", "9"}
Letters == {"A", "B", "E", "F", "I", "N", "O", "a", "b", "c", "d", "e", "f", "i",
            "k", "m", "n", "o", "p", "r", "s", "t", "u", "w", "x", "y"}

\* Python None.
None == << "<None>" >>

\* str.lower() on one character.
LowerChar(c) ==
  CASE c = "A" -> "a" [] c = "B" -> "b" [] c = "E" -> "e" [] c = "F" -> "f"
    [] c = "I" -> "i" [] c = "N" -> "n" [] c = "O" -> "o" [] OTHER -> c

\* str.lower()
Lower(s) == [p \in 1..Len(s) |-> LowerChar(s[p])]

\* s[a:b] with 0-based Python slice bounds 0 <= a <= b <= len(s).
Slice(s, a, b) == [p \in 1..(b - a) |-> s[a + p]]

\* Number of leading characters of s that belong to set cs.
LeadingIn(s, cs) ==
  IF \A p \in 1..Len(s) : s[p] \in cs THEN Len(s)
  ELSE (CHOOSE p \in 1..Len(s) : s[p] \notin cs /\ \A q \in 1..(p - 1) : s[q] \in cs) - 1

\* Number of trailing characters of s that belong to set cs.
TrailingIn(s, cs) ==
  IF \A p \in 1..Len(s) : s[p] \in cs THEN Len(s)
  ELSE Len(s) - (CHOOSE p \in 1..Len(s) :
                   s[p] \notin cs /\ \A q \in (p + 1)..Len(s) : s[q] \in cs)

\* str.lstrip(chars)
LStrip(s, cs) == Slice(s, LeadingIn(s, cs), Len(s))

\* str.rstrip(chars)
RStrip(s, cs) == Slice(s, 0, Len(s) - TrailingIn(s, cs))

\* str.strip()
Strip(s) == RStrip(LStrip(s, Whitespace), Whitespace)

\* str.replace(c, "") for a one-character c.
RemoveChar(s, c) == SelectSeq(s, LAMBDA x : x # c)

\* a < b on str: lexicographic by code point.
RECURSIVE StrLess(_, _)
StrLess(a, b) ==
  IF b = << >> THEN FALSE
  ELSE IF a = << >> THEN TRUE
  ELSE IF Head(a) = Head(b) THEN StrLess(Tail(a), Tail(b))
  ELSE Ord(Head(a)) < Ord(Head(b))

\* int(c) for a decimal digit c.
DigitVal(c) == Ord(c) - Ord("0")

\* int(s) for a non-empty str of decimal digits.
RECURSIVE DigitsToInt(_)
DigitsToInt(s) ==
  IF s = << >> THEN 0
  ELSE 10 * DigitsToInt(SubSeq(s, 1, Len(s) - 1)) + DigitVal(s[Len(s)])

RECURSIVE Pow10(_)
Pow10(n) == IF n <= 0 THEN 1 ELSE 10 * Pow10(n - 1)

(***************************************************************************)
(* Unbounded naturals                                                      *)
(***************************************************************************)

\* A natural number of any size (the magnitude of a Python int, the mantissa
\* of a float) is the sequence of its base-2^14 limbs, least significant
\* first, without high zero limbs: zero is << >>, 20000 is <<3616, 1>>.
LimbBits == 14
Base == 16384

Min(a, b) == IF a <= b THEN a ELSE b
Max(a, b) == IF a >= b THEN a ELSE b

RECURSIVE Pow2(_)
Pow2(n) == IF n <= 0 THEN 1 ELSE 2 * Pow2(n - 1)

\* Lowest limb of a.
Limb(a) == IF a = << >> THEN 0 ELSE a[1]

\* The natural n given as a machine integer.
RECURSIVE BigOfInt(_)
BigOfInt(n) == IF n = 0 THEN << >> ELSE << n % Base >> \o BigOfInt(n \div Base)

\* a without high zero limbs.
BigNorm(a) == SubSeq(a, 1, Len(a) - TrailingIn(a, {0}))

\* a with zero limbs on top up to n limbs.
Pad(a, n) == [i \in 1..n |-> IF i <= Len(a) THEN a[i] ELSE 0]

\* The operations below that carry from limb to limb work on the two halves
\* of the limbs in turn; each gives [s, out]: as many limbs as it was given,
\* and the carry (borrow, remainder) that leaves them.
CarryJoin(lo, hi) == [s |-> lo.s \o hi.s, out |-> hi.out]

RECURSIVE MulLimbs(_, _, _)
MulHigh(a, c, lo) ==
  CarryJoin(lo, MulLimbs(SubSeq(a, Len(a) \div 2 + 1, Len(a)), c, lo.out))

\* a * c + carry on the limbs of a
MulLimbs(a, c, carry) ==
  IF Len(a) = 1
  THEN [s |-> << (a[1] * c + carry) % Base >>, out |-> (a[1] * c + carry) \div Base]
  ELSE MulHigh(a, c, MulLimbs(SubSeq(a, 1, Len(a) \div 2), c, carry))

CarryEnd(r) == r.s \o BigOfInt(r.out)

\* a * c + carry for a machine integer 1 <= c <= 65536.
BigMulSmall(a, c, carry) ==
  IF a = << >> THEN BigOfInt(carry) ELSE CarryEnd(MulLimbs(a, c, carry))

RemainderJoin(lo, hi) == [s |-> lo.s \o hi.s, out |-> lo.out]

RECURSIVE DivLimbs(_, _)
DivLow(a, d, hi) ==
  RemainderJoin(DivLimbs(SubSeq(a, 1, (Len(a) - 1) \div 2) \o << hi.out >>, d), hi)

\* Long division of a by d from the top limb down, the top limb of a being
\* the remainder brought down (less than d): the quotient limbs and the
\* remainder.
DivLimbs(a, d) ==
  IF Len(a) = 2
  THEN [s |-> << (a[2] * Base + a[1]) \div d >>, out |-> (a[2] * Base + a[1]) % d]
  ELSE DivLow(a, d, DivLimbs(SubSeq(a, (Len(a) - 1) \div 2 + 1, Len(a)), d))

QuotientEnd(r) == [q |-> BigNorm(r.s), r |-> r.out]

\* [q, r]: quotient and remainder of a by a machine integer 1 <= d <= 65536.
BigDivSmall(a, d) ==
  IF a = << >> THEN [q |-> << >>, r |-> 0] ELSE QuotientEnd(DivLimbs(a \o << 0 >>, d))

RECURSIVE AddLimbs(_, _, _)
AddHigh(a, b, lo) ==
  CarryJoin(lo, AddLimbs(SubSeq(a, Len(a) \div 2 + 1, Len(a)),
                         SubSeq(b, Len(a) \div 2 + 1, Len(a)), lo.out))

\* a + b + carry on limbs a and b of the same number
AddLimbs(a, b, carry) ==
  IF Len(a) = 1
  THEN [s |-> << (a[1] + b[1] + carry) % Base >>, out |-> (a[1] + b[1] + carry) \div Base]
  ELSE AddHigh(a, b, AddLimbs(SubSeq(a, 1, Len(a) \div 2),
                              SubSeq(b, 1, Len(a) \div 2), carry))

\* a + b
BigAdd(a, b) ==
  IF a = << >> THEN b
  ELSE IF b = << >> THEN a
  ELSE CarryEnd(AddLimbs(Pad(a, Max(Len(a), Len(b))), Pad(b, Max(Len(a), Len(b))), 0))

RECURSIVE SubLimbs(_, _, _)
SubHigh(a, b, lo) ==
  CarryJoin(lo, SubLimbs(SubSeq(a, Len(a) \div 2 + 1, Len(a)),
                         SubSeq(b, Len(a) \div 2 + 1, Len(a)), lo.out))

\* a - b - borrow on limbs a and b of the same number
SubLimbs(a, b, borrow) ==
  IF Len(a) = 1
  THEN [s |-> << (a[1] - b[1] - borrow + Base) % Base >>,
        out |-> IF a[1] - b[1] - borrow < 0 THEN 1 ELSE 0]
  ELSE SubHigh(a, b, SubLimbs(SubSeq(a, 1, Len(a) \div 2),
                              SubSeq(b, 1, Len(a) \div 2), borrow))

\* a - b for a >= b
BigSub(a, b) ==
  IF b = << >> THEN a ELSE BigNorm(SubLimbs(a, Pad(b, Len(a)), 0).s)

\* a < b
BigLess(a, b) ==
  \/ Len(a) < Len(b)
  \/ /\ Len(a) = Len(b)
     /\ \E i \in 1..Len(a) : a[i] < b[i] /\ \A j \in (i + 1)..Len(a) : a[j] = b[j]

\* a * Base^n
ShiftLimbs(a, n) == IF a = << >> THEN << >> ELSE [i \in 1..n |-> 0] \o a

\* a * b
RECURSIVE BigMul(_, _)
BigMul(a, b) ==
  IF a = << >> \/ b = << >> THEN << >>
  ELSE IF Len(b) = 1 THEN BigMulSmall(a, b[1], 0)
  ELSE BigAdd(BigMul(a, BigNorm(SubSeq(b, 1, Len(b) \div 2))),
              ShiftLimbs(BigMul(a, SubSeq(b, Len(b) \div 2 + 1, Len(b))), Len(b) \div 2))

\* Number of bits of a machine integer / of a natural.
RECURSIVE IntBitLen(_)
IntBitLen(n) == IF n = 0 THEN 0 ELSE 1 + IntBitLen(n \div 2)

BitLen(a) == IF a = << >> THEN 0 ELSE (Len(a) - 1) * LimbBits + IntBitLen(a[Len(a)])

\* Number of low zero bits of a machine integer n > 0 / of a natural a > 0.
RECURSIVE IntLowZeros(_)
IntLowZeros(n) == IF n % 2 = 1 THEN 0 ELSE 1 + IntLowZeros(n \div 2)

LowZeros(a) == LeadingIn(a, {0}) * LimbBits + IntLowZeros(a[LeadingIn(a, {0}) + 1])

Odd(a) == a # << >> /\ a[1] % 2 = 1

\* a * 2^s
ShiftLeft(a, s) ==
  IF a = << >> THEN << >>
  ELSE [i \in 1..(s \div LimbBits) |-> 0] \o BigMulSmall(a, Pow2(s % LimbBits), 0)

\* [q, sticky]: a quotient with the fact that something non-zero was dropped.
Dropped(d, lost) == [q |-> d.q, sticky |-> lost \/ d.r # 0]

\* floor(a / 2^s), and whether a non-zero bit was shifted out.
ShiftRight(a, s) ==
  Dropped(BigDivSmall(SubSeq(a, s \div LimbBits + 1, Len(a)), Pow2(s % LimbBits)),
          \E i \in 1..Min(s \div LimbBits, Len(a)) : a[i] # 0)

\* floor(a / 2)
Halve(a) == BigDivSmall(a, 2).q

\* The integer nearest to (twice + f) / 2, where 0 <= f < 1 is non-zero iff
\* sticky: round-half-to-even.
HalfEven(twice, sticky) ==
  IF Odd(twice) /\ (sticky \/ Odd(Halve(twice)))
  THEN BigAdd(Halve(twice), << 1 >>)
  ELSE Halve(twice)

\* a * 10^k
RECURSIVE BigMulPow10(_, _)
BigMulPow10Rest(low, k) == BigMulPow10(low, k)

BigMulPow10(a, k) ==
  IF k = 0 \/ a = << >> THEN a
  ELSE IF k <= 4 THEN BigMulSmall(a, Pow10(k), 0)
  ELSE BigMulPow10Rest(BigMulPow10(a, k \div 2), k - k \div 2)

\* [q, sticky]: floor(a / 10^k), and whether a non-zero remainder was dropped
\* (here or before: sticky).
RECURSIVE BigDivPow10(_, _, _)
BigDivPow10Rest(d, k) == BigDivPow10(d.q, k, d.sticky)

BigDivPow10(a, k, sticky) ==
  IF k = 0 \/ a = << >> THEN [q |-> a, sticky |-> sticky]
  ELSE IF k <= 4 THEN Dropped(BigDivSmall(a, Pow10(k)), sticky)
  ELSE BigDivPow10Rest(BigDivPow10(a, k \div 2, sticky), k - k \div 2)

\* int(s) for a str of decimal digits.
RECURSIVE BigFromDigits(_)
BigFromDigits(s) ==
  IF Len(s) <= 4 THEN BigOfInt(DigitsToInt(s))
  ELSE BigAdd(BigMulPow10(BigFromDigits(SubSeq(s, 1, Len(s) \div 2)), Len(s) - Len(s) \div 2),
              BigFromDigits(SubSeq(s, Len(s) \div 2 + 1, Len(s))))

\* The last n decimal digits of a, for a < 10^n.
RECURSIVE LastDigits(_, _)
LastDigitsSplit(a, n, hi) ==
  LastDigits(hi, n - n \div 2)
    \o LastDigits(BigSub(a, BigMulPow10(hi, n \div 2)), n \div 2)

LastDigits(a, n) ==
  IF n <= 4 THEN [i \in 1..n |-> Alphabet[Ord("0") + ((Limb(a) \div Pow10(n - i)) % 10)]]
  ELSE LastDigitsSplit(a, n, BigDivPow10(a, n \div 2, FALSE).q)

\* The decimal digits of a ("" for zero): a has at most 31/100 of its bits,
\* plus one, digits.
BigToDigits(a) == LStrip(LastDigits(a, (31 * BitLen(a)) \div 100 + 1), {"0"})

\* A Python int: sign and magnitude (zero is not negative).
PyInt(neg, mag) == [neg |-> neg /\ mag # << >>, mag |-> mag]

(***************************************************************************)
(* Floats (IEEE 754 binary64, round to nearest, ties to even)              *)
(***************************************************************************)

\* Bits of a mantissa, exponent of the smallest subnormal (2^-1074), and the
\* power of two no finite float reaches (2^1024): sys.float_info.mant_dig,
\* min_exp - mant_dig, max_exp.
MantBits == 53
MinExp2 == -1074
MaxExp2 == 1024

Zero(neg) == [kind |-> "fin", neg |-> neg, m |-> << >>, e |-> 0]
Inf(neg) == [kind |-> "inf", neg |-> neg, m |-> << >>, e |-> 0]
NaN == [kind |-> "nan", neg |-> FALSE, m |-> << >>, e |-> 0]

\* The float with mantissa m, low its number of low zero bits.
FinOdd(neg, m, e, low) ==
  [kind |-> "fin", neg |-> neg, m |-> ShiftRight(m, low).q, e |-> e + low]

\* The float (-1)^neg * m * 2^e, for m of at most 53 bits (or m = 2^53) and
\* e >= -1074: an infinity from 2^1024 on.
Fin(neg, m, e) ==
  IF m = << >> THEN Zero(neg)
  ELSE IF BitLen(m) + e > MaxExp2 THEN Inf(neg)
  ELSE FinOdd(neg, m, e, LowZeros(m))

\* The float for the mantissa rounded from h = [q, sticky], q being twice the
\* mantissa plus the bit below it.
RoundHalf(neg, h, sticky, e) == Fin(neg, HalfEven(h.q, sticky \/ h.sticky), e)

\* The float nearest to (n + f) * 2^e, keeping the bits of n from bit sh on.
RoundAt(neg, n, e, sticky, sh) ==
  IF sh <= 0 THEN Fin(neg, n, e)
  ELSE RoundHalf(neg, ShiftRight(n, sh - 1), sticky, e + sh)

\* The float nearest to (n + f) * 2^e, where 0 <= f < 1 is non-zero iff
\* sticky (n then has 55 bits or more): the correctly rounded result of an
\* operation whose exact value it is.
RoundBits(neg, n, e, sticky) ==
  RoundAt(neg, n, e, sticky, Max(e + BitLen(n) - MantBits, MinExp2) - e)

\* Bits by which n is scaled before its division by 10^k, for a quotient of
\* 55 bits or more (10^k < 2^(10k/3 + 1)).
ScaleBits(n, k) == Max(0, (10 * k) \div 3 + 66 - BitLen(n))

RoundQuotient(neg, d, e) == RoundBits(neg, d.q, e, d.sticky)

\* The float nearest to n / 10^k, n scaled by s bits.
DecimalQuotient(neg, n, k, s) ==
  RoundQuotient(neg, BigDivPow10(ShiftLeft(n, s), k, FALSE), 0 - s)

\* The float nearest to the decimal n * 10^e10 (strtod).
BigDecimal(neg, n, e10) ==
  IF e10 >= 0 THEN RoundBits(neg, BigMulPow10(n, e10), 0, FALSE)
  ELSE DecimalQuotient(neg, n, 0 - e10, ScaleBits(n, 0 - e10))

\* Largest decimal exponent of a finite float (sys.float_info.max_10_exp), and
\* the decimal exponent of the smallest subnormal (4.9e-324).
MaxExp10 == 308
MinExp10 == -324

\* Index (1-based) of the first character of s in set cs, 0 when there is none.
FirstIn(s, cs) ==
  IF \E p \in 1..Len(s) : s[p] \in cs
  THEN CHOOSE p \in 1..Len(s) : s[p] \in cs /\ \A q \in 1..(p - 1) : s[q] \notin cs
  ELSE 0

AllDigits(s) == \A p \in 1..Len(s) : s[p] \in Digits

\* A run of digits of a float literal (possibly empty): digits, with single
\* underscores allowed between two digits.
DigitGroup(s) ==
  \A p \in 1..Len(s) :
    \/ s[p] \in Digits
    \/ /\ s[p] = "_"
       /\ 1 < p /\ p < Len(s)
       /\ s[p - 1] \in Digits /\ s[p + 1] \in Digits

\* float() of a well-formed decimal literal: digs are its digits (integer and
\* fraction digits, leading zeros dropped), nfrac the number of fraction
\* digits, e the exponent.  The value lies in [10^(x-1), 10^x) for
\* x = Len(digs) - nfrac + e: beyond the range of the floats it is an
\* infinity, below half the smallest subnormal a zero.
FloatDecimal(neg, digs, nfrac, e) ==
  IF digs = << >> THEN [exc |-> "", val |-> Zero(neg)]
  ELSE IF Len(digs) - nfrac + e > MaxExp10 + 1 THEN [exc |-> "", val |-> Inf(neg)]
  ELSE IF Len(digs) - nfrac + e < MinExp10 THEN [exc |-> "", val |-> Zero(neg)]
  ELSE [exc |-> "", val |-> BigDecimal(neg, BigFromDigits(digs), e - nfrac)]

\* Exponents are followed up to this many digits; a longer one is beyond
\* every float whatever the length of the mantissa text.
ExpDigits == 8

\* The value of the exponent digits edig (leading zeros dropped).
ExpValue(edig) == IF Len(edig) > ExpDigits THEN Pow10(ExpDigits) ELSE DigitsToInt(edig)

\* float() of digits [. digits] [e [sign] digits], given its fields.
FloatFields(neg, ipart, fpart, hasexp, eneg, edig) ==
  IF \/ ~DigitGroup(ipart) \/ ~DigitGroup(fpart)
     \/ Len(ipart) + Len(fpart) = 0
     \/ (hasexp /\ (edig = << >> \/ ~DigitGroup(edig)))
  THEN [exc |-> "ValueError", val |-> NaN]
  ELSE FloatDecimal(neg, LStrip(RemoveChar(ipart \o fpart, "_"), {"0"}),
                    Len(RemoveChar(fpart, "_")),
                    IF ~hasexp THEN 0
                    ELSE IF eneg THEN 0 - ExpValue(LStrip(RemoveChar(edig, "_"), {"0"}))
                    ELSE ExpValue(LStrip(RemoveChar(edig, "_"), {"0"})))

\* float() of mantissa mant (decimal point at dpos, 0 = none) and exponent
\* text expo (present when hasexp).
FloatMantissa(neg, mant, dpos, hasexp, expo) ==
  FloatFields(neg,
              IF dpos = 0 THEN mant ELSE SubSeq(mant, 1, dpos - 1),
              IF dpos = 0 THEN << >> ELSE SubSeq(mant, dpos + 1, Len(mant)),
              hasexp,
              expo # << >> /\ Head(expo) = "-",
              IF expo # << >> /\ Head(expo) \in {"+", "-"} THEN Tail(expo) ELSE expo)

\* float() of a lower-cased decimal literal with its first "e" at epos (0 = none).
FloatSplit(neg, low, epos) ==
  FloatMantissa(neg,
                IF epos = 0 THEN low ELSE SubSeq(low, 1, epos - 1),
                FirstIn(IF epos = 0 THEN low ELSE SubSeq(low, 1, epos - 1), {"."}),
                epos # 0,
                IF epos = 0 THEN << >> ELSE SubSeq(low, epos + 1, Len(low)))

\* float() of the lower-cased text after the sign.
FloatUnsigned(neg, low) ==
  IF low \in {<<"i","n","f">>, <<"i","n","f","i","n","i","t","y">>}
  THEN [exc |-> "", val |-> Inf(neg)]
  ELSE IF low = <<"n","a","n">> THEN [exc |-> "", val |-> NaN]
  ELSE FloatSplit(neg, low, FirstIn(low, {"e"}))

\* float() of text without surrounding whitespace.
FloatSigned(t) ==
  FloatUnsigned(t # << >> /\ Head(t) = "-",
                Lower(IF t # << >> /\ Head(t) \in {"+", "-"} THEN Tail(t) ELSE t))

\* float(s): [exc |-> "" or "ValueError", val |-> the float].
\* Accepts [ws] [sign] (inf | infinity | nan | digits [. digits] [e [sign] digits]) [ws]
\* as Python does (case-insensitively, single underscores between digits).
float(s) == FloatSigned(Strip(s))

\* float(n) for a Python int n (an infinity stands for OverflowError).
IntToFloat(n) == RoundBits(n.neg, n.mag, 0, FALSE)

\* int(x) for a float x: truncation toward zero; OverflowError on an infinity,
\* ValueError on a NaN.
int(x) ==
  IF x.kind = "inf" THEN [exc |-> "OverflowError", val |-> PyInt(FALSE, << >>)]
  ELSE IF x.kind = "nan" THEN [exc |-> "ValueError", val |-> PyInt(FALSE, << >>)]
  ELSE [exc |-> "",
        val |-> PyInt(x.neg, IF x.e >= 0 THEN ShiftLeft(x.m, x.e)
                             ELSE ShiftRight(x.m, 0 - x.e).q)]

\* -x
FloatNeg(x) == IF x.kind = "nan" THEN x ELSE [x EXCEPT !.neg = ~x.neg]

\* a + b on finite floats whose mantissas ma, mb are aligned at exponent e.
FloatAddAt(a, b, ma, mb, e) ==
  IF a.neg = b.neg THEN RoundBits(a.neg, BigAdd(ma, mb), e, FALSE)
  ELSE IF BigLess(mb, ma) THEN RoundBits(a.neg, BigSub(ma, mb), e, FALSE)
  ELSE IF BigLess(ma, mb) THEN RoundBits(b.neg, BigSub(mb, ma), e, FALSE)
  ELSE Zero(FALSE)

\* a + b
FloatAdd(a, b) ==
  IF a.kind = "nan" \/ b.kind = "nan" THEN NaN
  ELSE IF a.kind = "inf" /\ b.kind = "inf" THEN (IF a.neg = b.neg THEN a ELSE NaN)
  ELSE IF a.kind = "inf" THEN a
  ELSE IF b.kind = "inf" THEN b
  ELSE FloatAddAt(a, b, ShiftLeft(a.m, a.e - Min(a.e, b.e)),
                  ShiftLeft(b.m, b.e - Min(a.e, b.e)), Min(a.e, b.e))

\* a - b
FloatSub(a, b) == FloatAdd(a, FloatNeg(b))

\* a * b
FloatMul(a, b) ==
  IF a.kind = "nan" \/ b.kind = "nan" THEN NaN
  ELSE IF a.kind = "inf" \/ b.kind = "inf"
  THEN (IF (a.kind = "fin" /\ a.m = << >>) \/ (b.kind = "fin" /\ b.m = << >>)
        THEN NaN ELSE Inf(a.neg # b.neg))
  ELSE RoundBits(a.neg # b.neg, BigMul(a.m, b.m), a.e + b.e, FALSE)

\* x / d for a finite float x and a machine integer 1 <= d <= 65536.
FloatDivSmall(x, d) ==
  RoundQuotient(x.neg, Dropped(BigDivSmall(ShiftLeft(x.m, 5 * LimbBits), d), FALSE),
                x.e - 5 * LimbBits)

HalfEvenOf(h) == HalfEven(h.q, h.sticky)

\* The integer nearest to n * 2^e, ties to even.
NearestInt(n, e) ==
  IF e >= 0 THEN ShiftLeft(n, e) ELSE HalfEvenOf(ShiftRight(n, 0 - e - 1))

\* The number of cents nearest to |x|, for a finite float x.
NearestCents(x) == NearestInt(BigMulSmall(x.m, 100, 0), x.e)

\* round(x, 2): the float nearest to the 2-decimal number nearest to x.
Round2(x) ==
  IF x.kind # "fin" THEN x ELSE BigDecimal(x.neg, NearestCents(x), -2)

(***************************************************************************)
(* Number formatting                                                       *)
(***************************************************************************)

\* The digits of an integer part with a comma before every group of three.
RECURSIVE Grouped(_)
Grouped(d) ==
  IF Len(d) <= 3 THEN d
  ELSE Grouped(SubSeq(d, 1, Len(d) - 3 * Max(1, Len(d) \div 6)))
         \o <<",">> \o Grouped(SubSeq(d, Len(d) - 3 * Max(1, Len(d) \div 6) + 1, Len(d)))

\* digits, with zeros in front up to n digits.
ZeroPad(d, n) == [i \in 1..(n - Len(d)) |-> "0"] \o d

\* "1,234.50" for the digits of 123450 cents.
Money(d) ==
  Grouped(SubSeq(d, 1, Len(d) - 2)) \o <<".">> \o SubSeq(d, Len(d) - 1, Len(d))

SignText(neg) == IF neg THEN <<"-">> ELSE << >>

\* format(x, ",.2f")
Format2f(x) ==
  IF x.kind = "nan" THEN <<"n","a","n">>
  ELSE IF x.kind = "inf" THEN SignText(x.neg) \o <<"i","n","f">>
  ELSE SignText(x.neg) \o Money(ZeroPad(BigToDigits(NearestCents(x)), 3))

\* format(y, ".0f")
Format0f(y) ==
  IF y.kind = "nan" THEN <<"n","a","n">>
  ELSE IF y.kind = "inf" THEN SignText(y.neg) \o <<"i","n","f">>
  ELSE SignText(y.neg) \o ZeroPad(BigToDigits(NearestInt(y.m, y.e)), 1)

\* 100.0
Hundred == [kind |-> "fin", neg |-> FALSE, m |-> << 25 >>, e |-> 2]

\* format(x, ".0%"): x * 100 formatted without decimals, and a percent sign.
FormatPercent(x) == Format0f(FloatMul(x, Hundred)) \o <<"%">>

(***************************************************************************)
(* Data classes                                                            *)
(***************************************************************************)

SaleRecord(date, item, qty, net_sales) ==
  [date |-> date, item |-> item, qty |-> qty, net_sales |-> net_sales]

ArtistReport(name, commission_rate) ==
  [name |-> name, commission_rate |-> commission_rate, sales |-> << >>]

\* sum(s.net_sales for s in self.sales): the additions 0 + s1 + s2 + ...,
\* left to right.
RECURSIVE SumNetSales(_)
SumNetSales(sales) ==
  IF sales = << >> THEN Zero(FALSE)
  ELSE FloatAdd(SumNetSales(SubSeq(sales, 1, Len(sales) - 1)),
                sales[Len(sales)].net_sales)

\* ArtistReport.total_net_sales
total_net_sales(report) == Round2(SumNetSales(report.sales))

\* ArtistReport.gallery_commission
gallery_commission(report) ==
  Round2(FloatMul(total_net_sales(report), report.commission_rate))

\* ArtistReport.artist_payout
artist_payout(report) ==
  Round2(FloatSub(total_net_sales(report), gallery_commission(report)))

(***************************************************************************)
(* Parsing helpers                                                         *)
(***************************************************************************)

\* Default commission percentage when the category has no "(N)" suffix.
DefaultRate == 30

\* The float literal for n hundredths (0.30 for n = 30).
Hundredths(n) == BigDecimal(FALSE, BigOfInt(n), -2)

\* _COMMISSION_RE.search for \((\d+)\)\s*$ in a text t without trailing
\* whitespace whose last character is preceded by nd digits.
SearchDigits(t, nd) ==
  IF /\ Len(t) >= 3 /\ t[Len(t)] = ")" /\ nd >= 1
     /\ Len(t) - 1 - nd >= 1 /\ t[Len(t) - 1 - nd] = "("
  THEN [found |-> TRUE, start |-> Len(t) - 2 - nd,
        digits |-> SubSeq(t, Len(t) - nd, Len(t) - 1)]
  ELSE [found |-> FALSE, start |-> 0, digits |-> << >>]

SearchStripped(t) ==
  SearchDigits(t, IF t = << >> THEN 0 ELSE TrailingIn(SubSeq(t, 1, Len(t) - 1), Digits))

\* _COMMISSION_RE.search(s) for \((\d+)\)\s*$ : [found, start (0-based), digits].
CommissionSearch(s) == SearchStripped(RStrip(s, Whitespace))

\* Longest digit string int() converts (sys.get_int_max_str_digits()).
MaxStrDigits == 4300

\* x / 100.0 for x = float(int(digits)); an int beyond the floats cannot
\* be converted (OverflowError).
RateQuotient(x) ==
  IF x.kind = "inf" THEN [exc |-> "OverflowError", val |-> NaN]
  ELSE [exc |-> "", val |-> FloatDivSmall(x, 100)]

\* int(digits) / 100.0, given digits without their leading zeros (all of them
\* being ndigits digits): [exc, val].
RateOfDigits(ndigits, digs) ==
  IF ndigits > MaxStrDigits THEN [exc |-> "ValueError", val |-> NaN]
  ELSE IF Len(digs) > MaxExp10 + 1 THEN [exc |-> "OverflowError", val |-> NaN]
  ELSE RateQuotient(IntToFloat(PyInt(FALSE, BigFromDigits(digs))))

\* The rate of parse_category, given the regex match.
MatchedRate(match) ==
  IF match.found THEN RateOfDigits(Len(match.digits), LStrip(match.digits, {"0"}))
  ELSE [exc |-> "", val |-> Hundredths(DefaultRate)]

\* parse_category after the sentinel test, given the regex match and the rate.
ParseMatched(category, match, rate) ==
  IF rate.exc # "" THEN [exc |-> rate.exc, name |-> << >>, rate |-> Zero(FALSE)]
  ELSE [exc |-> "",
        name |-> Strip(LStrip(IF match.found THEN Strip(Slice(category, 0, match.start))
                              ELSE Strip(category), {"#"})),
        rate |-> rate.val]

ParseSearched(category, match) == ParseMatched(category, match, MatchedRate(match))

\* parse_category(category): [exc, name, rate]; exc names the exception raised
\* ("" when it returns).
parse_category(category) ==
  IF category = None \/ category = << >> \/ Lower(Strip(category)) = <<"n","o","n","e">>
  THEN [exc |-> "", name |-> << >>, rate |-> Zero(FALSE)]
  ELSE ParseSearched(category, CommissionSearch(category))

\* float(cleaned) with ValueError caught.
FloatOrZero(f) == IF f.exc = "ValueError" THEN [exc |-> "", val |-> Zero(FALSE)] ELSE f

\* parse_dollar after the cleaning of the text.
ParseCleaned(cleaned) ==
  IF cleaned = << >> THEN [exc |-> "", val |-> Zero(FALSE)]
  ELSE FloatOrZero(float(cleaned))

\* parse_dollar(value): [exc, val]; value None has no .replace (AttributeError).
parse_dollar(value) ==
  IF value = None THEN [exc |-> "AttributeError", val |-> Zero(FALSE)]
  ELSE ParseCleaned(Strip(RemoveChar(RemoveChar(value, "$"), ",")))

(***************************************************************************)
(* CSV processing                                                          *)
(***************************************************************************)

\* row.get(key, default)
Get(row, key, default) == IF key \in DOMAIN row THEN row[key] ELSE default

\* Index of the report keyed by name in the artists dict, 0 when absent.
ArtistIndex(artists, name) ==
  IF \E a \in 1..Len(artists) : artists[a].name = name
  THEN CHOOSE a \in 1..Len(artists) : artists[a].name = name
  ELSE 0

\* int(...) of the Qty conversion with ValueError caught.
QtyOfInt(i) ==
  IF i.exc = "ValueError" THEN [exc |-> "", val |-> PyInt(FALSE, << >>)] ELSE i

\* int(f) for the process_csv Qty conversion, f = float(text): ValueError
\* (only) is caught and turned into 0.
QtyOfFloat(f) ==
  IF f.exc = "ValueError" THEN [exc |-> "", val |-> PyInt(FALSE, << >>)]
  ELSE QtyOfInt(int(f.val))

\* The text given to float(): raw or "0".
QtyText(raw) == IF raw = None \/ raw = << >> THEN <<"0">> ELSE raw

\* The Qty conversion of process_csv: int(float(row.get("Qty", "0") or "0")).
ParseQty(row) == QtyOfFloat(float(QtyText(Get(row, "Qty", <<"0">>))))

\* artists[artist_name].sales.append(sale), the report being at index slot.
AppendSale(acc, artists, slot, sale) ==
  [acc EXCEPT !.artists =
     [artists EXCEPT ![slot].sales = Append(artists[slot].sales, sale)]]

\* StoreSale with the rate of every row written to the report (last row wins).
StoreSaleLastRate(acc, parsed, at, sale) ==
  IF at = 0
  THEN AppendSale(acc, Append(acc.artists, ArtistReport(parsed.name, parsed.rate)),
                  Len(acc.artists) + 1, sale)
  ELSE AppendSale(acc, [acc.artists EXCEPT ![at].commission_rate = parsed.rate],
                  at, sale)

\* The end of an iteration: the report is created when absent (at = 0) and
\* the sale appended to it.
StoreSale(acc, parsed, at, sale) ==
  IF at = 0
  THEN AppendSale(acc, Append(acc.artists, ArtistReport(parsed.name, parsed.rate)),
                  Len(acc.artists) + 1, sale)
  ELSE AppendSale(acc, acc.artists, at, sale)

\* An iteration for a row with an artist, given the converted Net Sales and Qty.
AttributedRow(acc, row, parsed, net, qty) ==
  IF net.exc # "" THEN [acc EXCEPT !.exc = net.exc]
  ELSE IF qty.exc # "" THEN [acc EXCEPT !.exc = qty.exc]
  ELSE StoreSale(acc, parsed, ArtistIndex(acc.artists, parsed.name),
                 SaleRecord(Get(row, "Date", << >>), Get(row, "Item", << >>),
                            qty.val, net.val))

\* RoutedRow skipping only the ("", 0.0) sentinel instead of every empty name.
RoutedRowSentinelOnly(acc, row, parsed) ==
  IF parsed.name = << >> /\ parsed.rate = Zero(FALSE)
  THEN [acc EXCEPT !.skipped = Append(acc.skipped, row)]
  ELSE AttributedRow(acc, row, parsed,
                     parse_dollar(Get(row, "Net Sales", << >>)), ParseQty(row))

\* An iteration, given the parse of the stripped category.
RoutedRow(acc, row, parsed) ==
  IF parsed.name = << >>
  THEN [acc EXCEPT !.skipped = Append(acc.skipped, row)]
  ELSE AttributedRow(acc, row, parsed,
                     parse_dollar(Get(row, "Net Sales", << >>)), ParseQty(row))

\* An iteration, given the outcome of parse_category on the stripped category
\* (an exception it raises leaves process_csv).
ParsedRow(acc, row, parsed) ==
  IF parsed.exc # "" THEN [acc EXCEPT !.exc = parsed.exc]
  ELSE RoutedRow(acc, row, parsed)

\* One iteration of the row loop of process_csv on the accumulator
\* acc = [exc, artists, skipped]; a None Category has no .strip (AttributeError).
LoopBody(acc, row) ==
  IF Get(row, "Category", << >>) = None THEN [acc EXCEPT !.exc = "AttributeError"]
  ELSE ParsedRow(acc, row, parse_category(Strip(Get(row, "Category", << >>))))

\* An iteration of the row loop, unless an exception has already ended it.
LoopStep(acc, row) == IF acc.exc # "" THEN acc ELSE LoopBody(acc, row)

\* The row loop of process_csv; an exception ends it.
RECURSIVE Accumulate(_)
Accumulate(rows) ==
  IF rows = << >> THEN [exc |-> "", artists |-> << >>, skipped |-> << >>]
  ELSE LoopStep(Accumulate(SubSeq(rows, 1, Len(rows) - 1)), rows[Len(rows)])

\* InsertAt placing a key before the keys equal to it (an unstable sort).
InsertAtBeforeEqual(keys, prev, key) ==
  IF \E p \in 1..Len(prev) : ~StrLess(keys[prev[p]], key)
  THEN CHOOSE p \in 1..Len(prev) :
         /\ ~StrLess(keys[prev[p]], key)
         /\ \A q \in 1..(p - 1) : StrLess(keys[prev[q]], key)
  ELSE Len(prev) + 1

\* Position at which a stable ascending sort inserts key into the keys already
\* ordered by prev: before the first greater key, hence after the equal ones.
InsertAt(keys, prev, key) ==
  IF \E p \in 1..Len(prev) : StrLess(key, keys[prev[p]])
  THEN CHOOSE p \in 1..Len(prev) :
         /\ StrLess(key, keys[prev[p]])
         /\ \A q \in 1..(p - 1) : ~StrLess(key, keys[prev[q]])
  ELSE Len(prev) + 1

InsertKey(prev, n, pos) ==
  SubSeq(prev, 1, pos - 1) \o << n >> \o SubSeq(prev, pos, Len(prev))

InsertLast(keys, prev) ==
  InsertKey(prev, Len(keys), InsertAt(keys, prev, keys[Len(keys)]))

\* Positions of keys in the order a stable ascending sort puts them
\* (list.sort / sorted on str keys).
RECURSIVE StableOrder(_)
StableOrder(keys) ==
  IF keys = << >> THEN << >>
  ELSE InsertLast(keys, StableOrder(SubSeq(keys, 1, Len(keys) - 1)))

\* The items of seq in the given order of positions.
Permute(seq, order) == [p \in 1..Len(seq) |-> seq[order[p]]]

\* report.sales.sort(key=lambda s: s.date)
SortSales(sales) ==
  Permute(sales, StableOrder([p \in 1..Len(sales) |-> sales[p].date]))

\* Whether sorting sales by date compares a None date (TypeError): with two or
\* more records every record takes part in a comparison.
SortRaises(sales) ==
  Len(sales) >= 2 /\ \E p \in 1..Len(sales) : sales[p].date = None

\* The sort loop of process_csv on the accumulator left by the row loop.
SortAll(acc) ==
  IF acc.exc # "" THEN acc
  ELSE IF \E a \in 1..Len(acc.artists) : SortRaises(acc.artists[a].sales)
  THEN [acc EXCEPT !.exc = "TypeError"]
  ELSE [acc EXCEPT !.artists =
          [a \in 1..Len(acc.artists) |->
             [acc.artists[a] EXCEPT !.sales = SortSales(acc.artists[a].sales)]]]

\* process_csv(rows): [exc, artists, skipped]; exc names the exception that
\* escapes the call ("" when it returns).
process_csv(rows) == SortAll(Accumulate(rows))

(***************************************************************************)
(* PDF / ZIP generation                                                    *)
(***************************************************************************)

\* re.sub(r"\s+", "_", s): each run of whitespace becomes one underscore.
RECURSIVE CollapseSpaces(_)
CollapseSpaces(s) ==
  IF s = << >> THEN << >>
  ELSE IF Head(s) \in Whitespace
  THEN << "_" >> \o CollapseSpaces(LStrip(s, Whitespace))
  ELSE << Head(s) >> \o CollapseSpaces(Tail(s))

\* Characters kept by re.sub(r"[^\w\s-]", "", name).
SafeChars == Letters \cup Digits \cup Whitespace \cup {"_", "-"}

\* safe or "unknown"
OrUnknown(safe) == IF safe = << >> THEN <<"u","n","k","n","o","w","n">> ELSE safe

_sanitise_filename(name) ==
  OrUnknown(CollapseSpaces(Strip(SelectSeq(name, LAMBDA c : c \in SafeChars))))

ReportsDir ==
  <<"c","o","m","m","i","s","s","i","o","n","_","r","e","p","o","r","t","s","/">>

\* sorted(artists.values(), key=lambda a: a.name)
SortedByName(artists) ==
  Permute(artists, StableOrder([a \in 1..Len(artists) |-> artists[a].name]))

\* The archive entry names of reports, in their order.
EntryNames(reports) ==
  [a \in 1..Len(reports) |->
     ReportsDir \o _sanitise_filename(reports[a].name) \o <<".","p","d","f">>]

\* generate_all_pdfs_zip(artists): the entry names written to the archive, in
\* the order written (ZipFile.writestr appends an entry even when the name is
\* already in the archive).
generate_all_pdfs_zip(artists) == EntryNames(SortedByName(artists))

(***************************************************************************)
(* Upload flow                                                             *)
(***************************************************************************)

\* The dict DictReader makes of one line: a line shorter than the header
\* gets None (restval) for the missing columns.
RowDict(header, line) ==
  [col \in {header[c] : c \in 1..Len(header)} |->
     IF (CHOOSE c \in 1..Len(header) : header[c] = col) <= Len(line)
     THEN line[CHOOSE c \in 1..Len(header) : header[c] = col]
     ELSE None]

RowDicts(header, lines) == [r \in 1..Len(lines) |-> RowDict(header, lines[r])]

\* list(csv.DictReader(...)) on a table already split into fields: header is
\* the first line, data the lines after it.  Blank lines are skipped.  (Lines
\* longer than the header are not modelled.)
DictReader(header, data) ==
  RowDicts(header, SelectSeq(data, LAMBDA line : line # << >>))

required_columns == {"Category", "Net Sales", "Item", "Qty", "Date"}

\* The columns reported missing by the validation step: it looks at the keys
\* of the first row and is skipped altogether when there are no rows.
MissingColumns(rows) ==
  IF rows # << >> THEN required_columns \ DOMAIN rows[1] ELSE {}

(***************************************************************************)
(* Summary table                                                           *)
(***************************************************************************)

SummaryColumns ==
  {"Artist", "Commission Rate", "Total Net Sales", "Gallery Commission",
   "Artist Payout"}

\* The summary-table line of one report.
SummaryLine(report) ==
  [col \in SummaryColumns |->
     CASE col = "Artist" -> report.name
       [] col = "Commission Rate" -> FormatPercent(report.commission_rate)
       [] col = "Total Net Sales" -> <<"$">> \o Format2f(total_net_sales(report))
       [] col = "Gallery Commission" -> <<"$">> \o Format2f(gallery_commission(report))
       [] col = "Artist Payout" -> <<"$">> \o Format2f(artist_payout(report))]

\* summary_data for the reports (already in display order).
SummaryTable(reports) == [j \in 1..Len(reports) |-> SummaryLine(reports[j])]

(***************************************************************************)
(* Inputs                                                                  *)
(***************************************************************************)

\* Longest row list / uploaded table (data lines) explored.
MaxRows == 3

\* All sequences over set S of length at most n.
RECURSIVE SeqsUpTo(_, _)
SeqsUpTo(S, n) ==
  IF n = 0 THEN {<< >>}
  ELSE UNION {{q} \cup (IF Len(q) = n - 1 THEN {Append(q, x) : x \in S} ELSE {}) :
                q \in SeqsUpTo(S, n - 1)}

FullHeader == <<"Category", "Net Sales", "Item", "Qty", "Date">>

\* A row dict with all five required columns.
Row(category, net, item, qty, date) ==
  [col \in required_columns |->
     CASE col = "Category" -> category
       [] col = "Net Sales" -> net
       [] col = "Item" -> item
       [] col = "Qty" -> qty
       [] col = "Date" -> date]

Ann == <<"A","n","n">>
Ann20 == <<"A","n","n"," ","(","2","0",")">>
Ann25 == <<"A","n","n"," ","(","2","5",")">>
Ann150 == <<"A","n","n"," ","(","1","5","0",")">>
Bob25 == <<"B","o","b"," ","(","2","5",")">>
NoneText == <<"N","o","n","e">>
Jan1 == <<"2","0","2","4","-","0","1","-","0","1">>
Jan2 == <<"2","0","2","4","-","0","1","-","0","2">>

\* Headers of the uploaded tables: complete, complete with an extra column,
\* lacking Category, lacking three columns, and the empty file.
Headers ==
  { FullHeader,
    <<"Date", "Item", "Notes", "Qty", "Net Sales", "Category">>,
    <<"Net Sales", "Item", "Qty", "Date">>,
    <<"Item", "Qty">>,
    << >> }

\* The data lines of the uploaded tables, by column.
TableRows ==
  { Row(Ann20, <<"$","1","0","0",".","0","0">>, <<"x">>, <<"1">>, Jan2),
    Row(Ann20, <<"$","5","0",".","0","0">>, <<"y">>, <<"1">>, Jan1),
    Row(NoneText, <<"$","1","0">>, <<"x">>, <<"1">>, Jan1) }

\* The line of fields that gives row r under header h (extra columns hold "n").
Line(h, r) == [c \in 1..Len(h) |-> IF h[c] \in DOMAIN r THEN r[h[c]] ELSE <<"n">>]

\* Lines of an upload with header h: full lines, one line cut short after its
\* first field, and a blank line.
Lines(h) ==
  {Line(h, r) : r \in TableRows}
    \cup {SubSeq(Line(h, Row(Ann20, <<"1">>, <<"x">>, <<"1">>, Jan1)), 1, 1) : c \in {1} \cap 1..Len(h)}
    \cup {<< >>}

\* Arguments of the direct calls of parse_category.
Categories ==
  { None, << >>, NoneText, <<" ","N","O","N","E"," ">>, <<" "," ">>, <<"\t">>,
    Ann20, Ann, Ann150, <<"#","A","n","n">>, <<"(","2","0",")">>, <<"#">>,
    <<"#"," ","A","n","n"," ","(","5",")"," ">>, <<"A","n","n","(","2","0",")","x">> }

\* Row kinds of the direct calls of process_csv: categories with and without
\* an artist name, and a row without the Category key.
RowsRouting ==
  {Row(c, <<"1">>, <<"x">>, <<"1">>, <<"1">>) :
     c \in {<< >>, NoneText, Ann20, Ann, <<"(","2","0",")">>, <<"#">>,
            <<" ","#","B","o","b"," ">>}}
    \cup {[col \in {"Item"} |-> <<"x">>]}

\* Row kinds of the direct calls of process_csv: commission rates.
RowsRates ==
  {Row(c, <<"1">>, <<"x">>, <<"1">>, <<"1">>) : c \in {Ann20, Ann25, Ann, Ann150, Bob25}}

\* Net Sales and Qty texts of the rows below, in pairs: amounts with and
\* without a dollar sign, with an underscore between digits, non-numeric and
\* non-finite; quantities fractional, negative, too small for a float, too
\* large for an int.
NumberTexts ==
  { << <<"-","$","2",".","0","0">>, <<"2",".","9">> >>,
    << <<"0",".","0","5">>, <<"1","e","-","4","0","0">> >>,
    << <<"1","_","0">>, <<"1","_","0">> >>,
    << <<"a","b","c">>, <<"a","b","c">> >>,
    << <<"i","n","f">>, <<"1">> >>,
    << <<"n","a","n">>, <<"3",".","0">> >>,
    << <<"1">>, <<"-","3">> >>,
    << <<"1">>, <<"i","n","f">> >> }

\* Row kinds of the direct calls of process_csv: Net Sales and Qty texts.
RowsNumbers ==
  {Row(Ann, t[1], <<"x">>, t[2], <<"1">>) : t \in NumberTexts}
    \cup {Row(Bob25, <<"0",".","0","7">>, <<"x">>, None, <<"1">>)}

\* Row kinds of the direct calls of process_csv: dates.
RowsSort ==
  {Row(Ann, <<"1">>, i, <<"1">>, d) :
     i \in {<<"x">>, <<"y">>}, d \in {<<"2">>, <<"1","0">>, << >>}}
    \cup {Row(Bob25, <<"1">>, <<"x">>, <<"1">>, <<"2">>),
          Row(Bob25, <<"1">>, <<"y">>, <<"1">>, None)}

\* Row kinds of the direct calls of process_csv: artist names as file names.
RowsZip ==
  {Row(c, <<"1">>, <<"x">>, <<"1">>, <<"1">>) :
     c \in {<<"A","/","B">>, <<"A","B">>, <<"A"," ","B">>, <<"!","!">>, <<"?","?">>, Ann20}}

(***************************************************************************)
(* State machine                                                           *)
(***************************************************************************)

VARIABLES
  mode,      \* "upload": a run of the Streamlit script on an uploaded file;
             \* "call": a direct call process_csv(rows);
             \* "parse": a direct call parse_category(category)
  pc,        \* position in the run
  header,    \* upload: the header line of the uploaded table
  data,      \* upload: its data lines
  category,  \* parse: the argument
  rows,      \* the row dicts given to process_csv
  invoked,   \* whether process_csv has been called
  result,    \* [exc, artists, skipped] of the process_csv call
  parsed,    \* parse: the value returned
  error,     \* upload: the columns named by st.error
  summary,   \* the summary table lines
  zip        \* the entry names of the ZIP archive

vars == <<mode, pc, header, data, category, rows, invoked, result, parsed,
          error, summary, zip>>

NoResult == [exc |-> "", artists |-> << >>, skipped |-> << >>]
NoParse == [exc |-> "", name |-> << >>, rate |-> Zero(FALSE)]

Fresh ==
  /\ invoked = FALSE /\ result = NoResult /\ parsed = NoParse
  /\ error = {} /\ summary = << >> /\ zip = << >>

\* A file has been uploaded.
InitUpload ==
  /\ mode = "upload" /\ pc = "read"
  /\ header \in Headers
  /\ data \in SeqsUpTo(Lines(header), MaxRows)
  /\ category = None /\ rows = << >> /\ Fresh

\* parse_category is about to be called.
InitParse ==
  /\ mode = "parse" /\ pc = "parse"
  /\ category \in Categories
  /\ header = << >> /\ data = << >> /\ rows = << >> /\ Fresh

\* process_csv is about to be called on row dicts of the given kinds.
InitCall(kinds) ==
  /\ mode = "call" /\ pc = "process"
  /\ rows \in SeqsUpTo(kinds, MaxRows)
  /\ header = << >> /\ data = << >> /\ category = None /\ Fresh

Init == InitUpload \/ InitParse \/ InitCall(RowsRouting)
InitNumbers == InitUpload \/ InitParse \/ InitCall(RowsNumbers)
InitSort == InitUpload \/ InitParse \/ InitCall(RowsSort)
InitZip == InitUpload \/ InitParse \/ InitCall(RowsZip)
InitRates == InitUpload \/ InitParse \/ InitCall(RowsRates)

\* Upload flow: rows = list(csv.DictReader(...)).
ReadUpload ==
  /\ pc = "read"
  /\ rows' = DictReader(header, data)
  /\ pc' = "validate"
  /\ UNCHANGED <<mode, header, data, category, invoked, result, parsed, error,
                 summary, zip>>

\* Upload flow: required-column validation; st.error and st.stop() when a
\* column is reported missing.
Validate ==
  /\ pc = "validate"
  /\ \E missing \in {MissingColumns(rows)} :
       IF missing # {}
       THEN error' = missing /\ pc' = "stopped"
       ELSE error' = error /\ pc' = "process"
  /\ UNCHANGED <<mode, header, data, category, rows, invoked, result, parsed,
                 summary, zip>>

\* artists, skipped_rows = process_csv(rows)
ProcessData ==
  /\ pc = "process"
  /\ invoked' = TRUE
  /\ result' = process_csv(rows)
  /\ pc' = IF result'.exc # "" THEN "raised" ELSE "returned"
  /\ UNCHANGED <<mode, header, data, category, rows, parsed, error, summary, zip>>

\* The summary table and the ZIP archive made from the artists (nothing is
\* made when there are none).
ShowResults ==
  /\ pc = "returned"
  /\ summary' = SummaryTable(SortedByName(result.artists))
  /\ zip' = generate_all_pdfs_zip(result.artists)
  /\ pc' = "done"
  /\ UNCHANGED <<mode, header, data, category, rows, invoked, result, parsed, error>>

\* parsed = parse_category(category)
CallParseCategory ==
  /\ pc = "parse"
  /\ parsed' = parse_category(category)
  /\ pc' = "done"
  /\ UNCHANGED <<mode, header, data, category, rows, invoked, result, error,
                 summary, zip>>

Next == ReadUpload \/ Validate \/ ProcessData \/ ShowResults \/ CallParseCategory

Spec == Init /\ [][Next]_vars
SpecNumbers == InitNumbers /\ [][Next]_vars
SpecSort == InitSort /\ [][Next]_vars
SpecZip == InitZip /\ [][Next]_vars
SpecRates == InitRates /\ [][Next]_vars

(***************************************************************************)
(* Properties                                                              *)
(***************************************************************************)

\* process_csv has been called and has returned.
Returned == invoked /\ pc \in {"returned", "done"}

artists == result.artists
skipped == result.skipped

\* The artist name process_csv parses from a row.
RowName(row) == parse_category(Strip(Get(row, "Category", << >>))).name

\* The commission rate process_csv parses from a row.
RowRate(row) == parse_category(Strip(Get(row, "Category", << >>))).rate

\* The artist names process_csv parses from the input rows, by position.
RowNames == [i \in 1..Len(rows) |-> RowName(rows[i])]

\* The positions of the input rows attributed to name, in input order, names
\* being RowNames.
RowsOf(names, name) ==
  SelectSeq([i \in 1..Len(names) |-> i], LAMBDA i : names[i] = name)

\* The SaleRecord of an input row.
SaleOf(row) ==
  SaleRecord(Get(row, "Date", << >>), Get(row, "Item", << >>),
             ParseQty(row).val, parse_dollar(Get(row, "Net Sales", << >>)).val)

RECURSIVE SalesCount(_)
SalesCount(reports) ==
  IF reports = << >> THEN 0 ELSE Len(Head(reports).sales) + SalesCount(Tail(reports))

\* The value of a natural of at most two limbs as a machine integer.
RECURSIVE BigToInt(_)
BigToInt(a) == IF a = << >> THEN 0 ELSE Head(a) + Base * BigToInt(Tail(a))

\* The whole number of cents (of hundredths) whose float x is: {c} when x is
\* the float nearest to c / 100 for an integer |c| < 2^28, {} otherwise.
AsCents(x) ==
  IF /\ x.kind = "fin"
     /\ Len(NearestCents(x)) <= 2
     /\ (x.m = << >> \/ BigDecimal(x.neg, NearestCents(x), -2) = x)
  THEN {(IF x.neg THEN -1 ELSE 1) * BigToInt(NearestCents(x))}
  ELSE {}

\* C1: when process_csv returns, skipped is the input rows whose stripped
\* Category parses to an empty artist name, in input order; every other row
\* has exactly one report keyed by its artist name, each report holds one
\* sale per row of its artist, and len(skipped) plus the number of sales
\* equals len(rows).
C1_RoutingPartition ==
  Returned =>
    \E names \in {RowNames} :
      /\ skipped = SelectSeq(rows, LAMBDA r : RowName(r) = << >>)
      /\ \A i \in 1..Len(rows) :
           names[i] # << >> =>
             Cardinality({a \in 1..Len(artists) : artists[a].name = names[i]}) = 1
      /\ \A a \in 1..Len(artists) :
           /\ artists[a].name # << >>
           /\ Len(artists[a].sales) = Len(RowsOf(names, artists[a].name))
      /\ Len(skipped) + SalesCount(artists) = Len(rows)

\* A call returned with the name-less categories "(20)" and "#" skipped and a
\* third row attributed to an artist.
C1_Witness ==
  /\ Returned /\ mode = "call" /\ Len(rows) = 3
  /\ Get(rows[1], "Category", None) = <<"(","2","0",")">>
  /\ Get(rows[2], "Category", None) = <<"#">>
  /\ skipped = <<rows[1], rows[2]>>
  /\ Len(artists) = 1 /\ Len(artists[1].sales) = 1

\* C2: when process_csv returns, every report's commission_rate is the rate
\* parsed from the first input row attributed to its artist.
C2_FirstRowFixesRate ==
  Returned =>
    \E names \in {RowNames} :
      \A a \in 1..Len(artists) :
        /\ RowsOf(names, artists[a].name) # << >>
        /\ artists[a].commission_rate = RowRate(rows[RowsOf(names, artists[a].name)[1]])

\* "Ann (20)" was followed by rows for Ann encoding 25% and the default 30%,
\* and the report kept 20%.
C2_Witness ==
  /\ Returned /\ mode = "call" /\ Len(rows) = 3
  /\ Get(rows[1], "Category", None) = Ann20 /\ Get(rows[2], "Category", None) = Ann25
  /\ Get(rows[3], "Category", None) = Ann
  /\ Len(artists) = 1 /\ AsCents(artists[1].commission_rate) = {20}

\* C3: when process_csv returns, every report's sales are in ascending order
\* of date (string comparison) and are the records of its artist's rows
\* rearranged by a permutation that keeps records of equal date in input order.
C3_SalesSortedStable ==
  Returned =>
    \A a \in 1..Len(artists) :
      \E from \in {RowsOf(RowNames, artists[a].name)} :
      \E n \in {Len(from)} :
        /\ Len(artists[a].sales) = n
        /\ \A j, k \in 1..n :
             j < k => ~StrLess(artists[a].sales[k].date, artists[a].sales[j].date)
        /\ \E f \in [1..n -> 1..n] :
             /\ \A j, k \in 1..n : j # k => f[j] # f[k]
             /\ \A j \in 1..n : artists[a].sales[j] = SaleOf(rows[from[f[j]]])
             /\ \A j, k \in 1..n :
                  (j < k /\ artists[a].sales[j].date = artists[a].sales[k].date)
                    => f[j] < f[k]

\* Three rows of one artist arrived with dates "2", "10", "2": the sort moved
\* "10" to the front and kept the two "2" records (items x then y) in input order.
C3_Witness ==
  /\ Returned /\ mode = "call" /\ Len(rows) = 3 /\ Len(artists) = 1
  /\ Get(rows[1], "Date", None) = <<"2">> /\ Get(rows[1], "Item", None) = <<"x">>
  /\ Get(rows[2], "Date", None) = <<"1","0">>
  /\ Get(rows[3], "Date", None) = <<"2">> /\ Get(rows[3], "Item", None) = <<"y">>
  /\ artists[1].sales = <<SaleOf(rows[2]), SaleOf(rows[1]), SaleOf(rows[3])>>

\* C4: in an upload run whose table has a header lacking a required column
\* (whatever the number of data rows), process_csv is
\* never invoked and the run stops in the validation error naming the missing
\* columns.
C4_MissingColumnStopsRun ==
  (mode = "upload" /\ header # << >>
     /\ required_columns \ {header[c] : c \in 1..Len(header)} # {}) =>
    /\ ~invoked
    /\ pc = "stopped" =>
         error = required_columns \ {header[c] : c \in 1..Len(header)}

\* C5: process_csv never raises.
C5_NeverRaises == invoked => (result.exc = "" /\ pc # "raised")

\* x is the float nearest to a whole number of cents.
TwoDecimal(x) == x.kind = "fin" /\ x = BigDecimal(x.neg, NearestCents(x), -2)

\* The whole number of cents nearest to a finite float x, as a signed int.
Cents(x) == PyInt(x.neg, NearestCents(x))

\* a + b and a - b for signed ints.
SignedAdd(a, b) ==
  IF a.neg = b.neg THEN PyInt(a.neg, BigAdd(a.mag, b.mag))
  ELSE IF BigLess(a.mag, b.mag) THEN PyInt(b.neg, BigSub(b.mag, a.mag))
  ELSE PyInt(a.neg, BigSub(a.mag, b.mag))

SignedSub(a, b) == SignedAdd(a, PyInt(~b.neg, b.mag))

\* C6: for every report, total_net_sales, gallery_commission and
\* artist_payout are amounts of two decimals, and gallery_commission +
\* artist_payout differs from total_net_sales by at most one cent.
C6_TotalsRounding ==
  Returned =>
    \A a \in 1..Len(artists) :
      \E t \in {total_net_sales(artists[a])},
         g \in {gallery_commission(artists[a])},
         p \in {artist_payout(artists[a])} :
        /\ TwoDecimal(t) /\ TwoDecimal(g) /\ TwoDecimal(p)
        /\ BigLess(SignedSub(SignedAdd(Cents(g), Cents(p)), Cents(t)).mag, << 2 >>)

\* The text before the "(N)" suffix (or the whole text), trimmed, without its
\* leading '#' characters.
C7_Name(text) ==
  Strip(LStrip(IF CommissionSearch(text).found
               THEN Strip(Slice(text, 0, CommissionSearch(text).start))
               ELSE Strip(text), {"#"}))

\* C7: parse_category returns ("", 0.0) for an absent, empty, blank or "none"
\* (any case, surrounding whitespace ignored) category; otherwise rate N / 100
\* for a trailing "(N)" and 0.30 without one, with the name as described.
C7_ParseCategoryContract ==
  (mode = "parse" /\ pc = "done") =>
    IF \/ category = None
       \/ Strip(category) = << >>
       \/ Lower(Strip(category)) = <<"n","o","n","e">>
    THEN parsed = [exc |-> "", name |-> << >>, rate |-> Zero(FALSE)]
    ELSE /\ parsed.exc = ""
         /\ parsed.name = C7_Name(category)
         /\ AsCents(parsed.rate) = {IF CommissionSearch(category).found
                                    THEN DigitsToInt(CommissionSearch(category).digits)
                                    ELSE 30}

\* 0 <= x <= 1 for a float x = m * 2^e, which lies in [2^(n-1), 2^n) for
\* n = BitLen(m) + e.
InUnitInterval(x) ==
  /\ x.kind = "fin"
  /\ \/ x.m = << >>
     \/ ~x.neg /\ (BitLen(x.m) + x.e <= 0 \/ (x.m = << 1 >> /\ x.e = 0))

\* C8: every report's commission_rate is a fraction in [0, 1].
C8_RateIsFraction ==
  invoked => \A a \in 1..Len(artists) : InUnitInterval(artists[a].commission_rate)

\* C9: every SaleRecord's qty is non-negative.
C9_QtyNonNegative ==
  invoked =>
    \A a \in 1..Len(artists) :
      \A j \in 1..Len(artists[a].sales) : ~artists[a].sales[j].qty.neg

\* C10: the archive has one entry per report, in ascending order of artist
\* name, named commission_reports/<sanitised name>.pdf, and no two reports
\* get the same entry name.
C10_ZipEntriesDistinct ==
  (invoked /\ pc = "done") =>
    /\ Len(zip) = Len(artists)
    /\ \A j \in 1..Len(zip) :
         \E a \in 1..Len(artists) :
           /\ Cardinality({b \in 1..Len(artists) :
                             StrLess(artists[b].name, artists[a].name)}) = j - 1
           /\ zip[j] = ReportsDir \o _sanitise_filename(artists[a].name)
                         \o <<".","p","d","f">>
    /\ \A j, k \in 1..Len(zip) : j # k => zip[j] # zip[k]

=============================================================================
